---------------------------- MODULE Spec2Model ----------------------------
(***************************************************************************)
(* A model of ProgressService                                              *)
(* (src/lib/chef-lab-client/app/services/progress.service.ts): the         *)
(* learner's progress state, its local-storage mirror, the remote store    *)
(* reached through PUT/GET api/v1/progress, and the handlers startPage,    *)
(* completePage (with its cascade), the session callback of init() and the *)
(* response callbacks of the PUT and GET requests.                         *)
(*                                                                         *)
(* Conventions.                                                            *)
(*  - A content id is a sequence of path segments: "mx/u1" is              *)
(*    <<"mx","u1">>.  The wildcard read of getUserProgressData builds the  *)
(*    regular expression ^pageId(/.+)?$; on segment sequences that is      *)
(*    "pageId is a prefix of the key".  NoId (<<>>) is JavaScript's        *)
(*    undefined.                                                           *)
(*  - A timestamp (new Date().toISOString()) is the value of the clock     *)
(*    `now`, a positive integer; ISO-8601 strings of one length compare    *)
(*    as the instants they denote.  0 stands for an absent field.          *)
(*  - A progress object is a function from keys <<learningType, id>> to    *)
(*    Learning records.  Objects live in `heap` and are referred to by     *)
(*    identity, because updateField mutates the object the subject holds   *)
(*    and the PUT callbacks republish the object they captured.            *)
(***************************************************************************)
EXTENDS Naturals, Integers, Sequences, FiniteSets, TLC

\* ---------------------------------------------------------------- bounds

\* The clock takes the values 1..MaxTime.
MaxTime == 2
\* Number of emissions of the isAuthenticated observable that are explored.
MaxInits == 2
\* Number of startPage/completePage calls made by the page's components.
MaxCalls == 2
\* Number of emissions and component calls together, where emissions and
\* calls interleave freely (Spec).
MaxEvents == 2
\* Largest number of PUT requests in flight when a component makes a call.
MaxInFlight == 2
\* Largest bound of a minutes range in the catalogs of SpecProgress.
MaxMinutes == 2
\* Largest remaining time of a node in the catalogs of SpecProgress.
MaxRemaining == 4

\* ------------------------------------------------------------ identifiers

NoId == <<>>
ModulesRoot == <<"modules">>
TracksRoot == <<"tracks">>
GrandOpening == <<"grand-opening">>
\* The key JavaScript gives dataLocal[undefined].
Undefined == "undefined"

IsPrefix(p, k) == Len(p) <= Len(k) /\ SubSeq(k, 1, Len(p)) = p

\* ---------------------------------------------------------------- records

\* interface Learning, with the two fields awardAchievements adds.
NoRecord ==
  [started_at |-> 0, completed_at |-> 0, achievement_type |-> "", earned_at |-> 0]

Started(t) == [NoRecord EXCEPT !.started_at = t]
Completed(t) == [NoRecord EXCEPT !.completed_at = t]
Earned(t) == [NoRecord EXCEPT !.achievement_type = "standard", !.earned_at = t]

\* Object.assign(target, fieldValues): every field fieldValues has overwrites.
Assign(target, fieldValues) ==
  [started_at |-> IF fieldValues.started_at # 0
                  THEN fieldValues.started_at ELSE target.started_at,
   completed_at |-> IF fieldValues.completed_at # 0
                    THEN fieldValues.completed_at ELSE target.completed_at,
   achievement_type |-> IF fieldValues.achievement_type # ""
                        THEN fieldValues.achievement_type ELSE target.achievement_type,
   earned_at |-> IF fieldValues.earned_at # 0
                 THEN fieldValues.earned_at ELSE target.earned_at]

\* {}
EmptyObject == [key \in {} |-> NoRecord]

\* data[learningType][pageId] || {}
RecordAt(data, key) == IF key \in DOMAIN data THEN data[key] ELSE NoRecord

\* An enumeration of a finite set (the order of Object.keys where the code's
\* result does not depend on it).
RECURSIVE SetToSeq(_)
SetToSeq(S) ==
  IF S = {} THEN <<>>
  ELSE LET x == CHOOSE y \in S : TRUE IN <<x>> \o SetToSeq(S \ {x})

\* ------------------------------------------------------------------ state

VARIABLES
  dataTree,         \* window.dataTree: the catalog (never written)
  currentPage,      \* window.currentPage.id
  now,              \* the clock new Date() reads
  heap,             \* the progress objects, by identity
  subject,          \* the object activeUserProgress holds
  localStorage,     \* the parsed value of localStorage.userProgressInfo
  isAuthenticated,  \* ProgressService.isAuthenticated
  wasAnonymous,     \* ProgressService.wasAnonymous
  puts,             \* PUT requests in flight
  gets,             \* GET requests in flight
  lastOp,           \* the handler that ran last
  lastArg,          \* its page id
  lastCalls,        \* the updateField calls it made, in order
  inits,            \* emissions of isAuthenticated so far
  calls,            \* component calls of startPage/completePage so far
  result,           \* the value the last getModuleProgress query returned
  written,          \* per record, the fields the updateField calls so far wrote
  accessed          \* the last getLastAccessed query and the id it returned

vars ==
  <<dataTree, currentPage, now, heap, subject, localStorage,
    isAuthenticated, wasAnonymous, puts, gets, lastOp, lastArg,
    lastCalls, inits, calls, result, written, accessed>>

\* No getLastAccessed query yet.
NoAccess == [learningType |-> "", pageId |-> NoId, id |-> NoId]

\* this.activeUserProgress.getValue()
Value == heap[subject]

\* ---------------------------------------------------------------- catalog

NoRange == <<>>

Node(parent, children, is_fork, minutes, remaining) ==
  [parent |-> parent, children |-> children, is_fork |-> is_fork,
   minutes |-> minutes, remaining |-> remaining]

\* A track entry; hasModules is FALSE when the entry has no modules property
\* (the "tracks" root entry, which lists children instead).
Track(hasModules, modules) == [hasModules |-> hasModules, modules |-> modules]

MX == <<"mx">>
MXU1 == <<"mx", "u1">>
MY == <<"my">>
MYU1 == <<"my", "u1">>
TY == <<"ty">>
TZ == <<"tz">>
TE == <<"te">>
Unknown == <<"zz">>

\* The catalog of the session specifications: module mx with the single unit
\* mx/u1 whose minutes cover the module's remaining time, module my with the
\* single unit my/u1, track ty = [mx] and track tz = [mx, my].
MainModules ==
  (ModulesRoot :> Node(NoId, <<MX, MY>>, FALSE, NoRange, NoRange))
  @@ (MX :> Node(ModulesRoot, <<MXU1>>, FALSE, <<5, 5>>, <<5, 5>>))
  @@ (MXU1 :> Node(MX, <<>>, FALSE, <<5, 5>>, NoRange))
  @@ (MY :> Node(ModulesRoot, <<MYU1>>, FALSE, NoRange, <<2, 4>>))
  @@ (MYU1 :> Node(MY, <<>>, FALSE, <<2, 4>>, NoRange))

MainTracks ==
  (TracksRoot :> Track(FALSE, <<>>))
  @@ (TY :> Track(TRUE, <<MX>>))
  @@ (TZ :> Track(TRUE, <<MX, MY>>))

MainCatalog ==
  [modules |-> MainModules, tracks |-> MainTracks, trackKeys |-> <<TracksRoot, TY, TZ>>]

MXU1P == <<"mx", "u1", "p">>

\* The time ranges a catalog node may carry: none, or [a, b] with a <= b.
Ranges ==
  {NoRange} \cup {range \in (1..MaxMinutes) \X (1..MaxMinutes) : range[1] <= range[2]}

\* The remaining times a catalog node may carry: none, or [r, r].
Remainings == {NoRange} \cup {<<r, r>> : r \in 1..MaxRemaining}

\* The catalogs of the progress specification: module mx, its page mx/u1 (a
\* fork or not) and the page mx/u1/p below it, with every choice of estimates;
\* track ty = [mx] and track te, whose list of modules is empty.
ProgressModules(fork, mxMinutes, mxRemaining, u1Remaining, unitMinutes) ==
  (ModulesRoot :> Node(NoId, <<MX>>, FALSE, NoRange, NoRange))
  @@ (MX :> Node(ModulesRoot, <<MXU1>>, FALSE, mxMinutes, mxRemaining))
  @@ (MXU1 :> Node(MX, <<MXU1P>>, fork, unitMinutes, u1Remaining))
  @@ (MXU1P :> Node(MXU1, <<>>, FALSE, unitMinutes, NoRange))

ProgressCatalogs ==
  {[modules |-> ProgressModules(fork, mxMinutes, mxRemaining, u1Remaining, unitMinutes),
    tracks |-> (TracksRoot :> Track(FALSE, <<>>))
               @@ (TY :> Track(TRUE, <<MX>>))
               @@ (TE :> Track(TRUE, <<>>)),
    trackKeys |-> <<TracksRoot, TY, TE>>] :
     fork \in BOOLEAN, mxMinutes \in Ranges, mxRemaining \in Remainings,
     u1Remaining \in Remainings, unitMinutes \in Ranges}

\* What the remote store may answer a GET with: nothing, or the progress
\* another device recorded.
RemoteSnapshots ==
  {EmptyObject,
   (<<"units", MXU1>> :> [NoRecord EXCEPT !.started_at = 1, !.completed_at = 1])}

\* What local storage may hold when the page loads: nothing, or what an earlier
\* anonymous visit left after completePage("mx/u1") at time 1.
LocalSnapshots ==
  {EmptyObject,
   (<<"units", MXU1>> :> [NoRecord EXCEPT !.started_at = 1, !.completed_at = 1])
   @@ (<<"modules", MX>> :> [NoRecord EXCEPT !.started_at = 1, !.completed_at = 1])
   @@ (<<"tracks", TY>> :> [NoRecord EXCEPT !.started_at = 1, !.completed_at = 1])
   @@ (<<"achievements", GrandOpening>> :> Earned(1))
   @@ (<<"achievements", TY>> :> Earned(1))}

\* The page ids the components and window.currentPage may name.
PageIds == {MXU1, MX, MYU1, TY, Unknown, ModulesRoot}

\* moduleData[id] is defined
Known(id) == id \in DOMAIN dataTree.modules

\* ----------------------------------------------------- catalog traversal

RECURSIVE Ascend(_, _)
\* The loop of getModuleRoot; fuel bounds the walk by the size of the catalog.
Ascend(pageId, fuel) ==
  LET parent == dataTree.modules[pageId].parent IN
  IF fuel = 0 \/ parent = NoId \/ parent = ModulesRoot THEN pageId
  ELSE Ascend(parent, fuel - 1)

getModuleRoot(pageId) ==
  IF ~Known(pageId) THEN NoId
  ELSE Ascend(pageId, Cardinality(DOMAIN dataTree.modules))

getLearningType(pageId) ==
  IF pageId = ModulesRoot \/ pageId = TracksRoot THEN Undefined
  ELSE LET moduleId == getModuleRoot(pageId) IN
       IF pageId = moduleId THEN "modules"
       ELSE IF moduleId # NoId THEN "units"
       ELSE IF pageId \in DOMAIN dataTree.tracks THEN "tracks"
       ELSE Undefined

RECURSIVE getChildPathIds(_, _)
RECURSIVE ChildrenFrom(_, _, _)
\* The forEach of getChildPathIds over children[i..]: each child, then its own
\* descendants.
ChildrenFrom(children, i, fuel) ==
  IF i > Len(children) THEN <<>>
  ELSE <<children[i]>> \o getChildPathIds(children[i], fuel)
       \o ChildrenFrom(children, i + 1, fuel)

getChildPathIds(pageId, fuel) ==
  IF fuel = 0 \/ ~Known(pageId) THEN <<>>
  ELSE ChildrenFrom(dataTree.modules[pageId].children, 1, fuel - 1)

\* (parent && !moduleData[parent].is_fork) ? parent : activeItemId
ChildRoot(activeItemId) ==
  LET parent == dataTree.modules[activeItemId].parent IN
  IF parent # NoId /\ ~dataTree.modules[parent].is_fork THEN parent ELSE activeItemId

RECURSIVE ParentPath(_, _)
\* The ancestors of a node below the root sentinel, outermost first.
ParentPath(parent, fuel) ==
  IF fuel = 0 \/ parent = NoId \/ parent = ModulesRoot THEN <<>>
  ELSE ParentPath(dataTree.modules[parent].parent, fuel - 1) \o <<parent>>

getActivePathIds(activeItemId) ==
  IF ~Known(activeItemId) THEN <<>>
  ELSE LET childRoot == ChildRoot(activeItemId)
           size == Cardinality(DOMAIN dataTree.modules)
       IN ParentPath(dataTree.modules[childRoot].parent, size)
          \o <<childRoot>> \o getChildPathIds(childRoot, size)

\* ------------------------------------------------------------------ reads

\* Object.keys(data[learningType] || {})
IdsOf(data, learningType) == {key[2] : key \in {k \in DOMAIN data : k[1] = learningType}}

\* getUserProgressData(learningType, pageId, true): the ids of the records whose
\* key matches ^pageId(/.+)?$
WildcardIds(data, learningType, pageId) ==
  {id \in IdsOf(data, learningType) : IsPrefix(pageId, id)}

\* [started_at, completed_at].sort().reverse()[0]: sort() keeps undefined last,
\* so after reverse() an undefined field comes first; 0 is undefined.
TouchTime(rec) ==
  IF rec.started_at = 0 \/ rec.completed_at = 0 THEN 0
  ELSE IF rec.started_at > rec.completed_at THEN rec.started_at ELSE rec.completed_at

\* The comparator of getLastAccessed: (dateA > dateB) ? -1 : 1, where a
\* comparison with undefined is false.
Compare(data, learningType, a, b) ==
  LET dateA == TouchTime(data[<<learningType, a>>])
      dateB == TouchTime(data[<<learningType, b>>])
  IN IF dateA # 0 /\ dateB # 0 /\ dateA > dateB THEN 0 - 1 ELSE 1

RECURSIVE InsertSorted(_, _, _, _)
\* One pass of an insertion sort: element moves left over every tmp with
\* comparefn(tmp, element) > 0.
InsertSorted(data, learningType, sorted, element) ==
  IF sorted = <<>> THEN <<element>>
  ELSE LET tmp == sorted[Len(sorted)] IN
       IF Compare(data, learningType, tmp, element) > 0
       THEN InsertSorted(data, learningType, SubSeq(sorted, 1, Len(sorted) - 1), element)
            \o <<tmp>>
       ELSE sorted \o <<element>>

RECURSIVE SortKeys(_, _, _, _)
SortKeys(data, learningType, keys, i) ==
  IF i = 0 THEN <<>>
  ELSE InsertSorted(data, learningType, SortKeys(data, learningType, keys, i - 1), keys[i])

\* The id of getLastAccessed's result, NoId when it returns undefined.
getLastAccessed(data, learningType, pageId) ==
  LET keys == SetToSeq(WildcardIds(data, learningType, pageId))
      sorted == SortKeys(data, learningType, keys, Len(keys))
  IN IF sorted = <<>> THEN NoId ELSE sorted[1]

\* The comparator decides the pair: both touch times are defined and differ,
\* so that Compare(a, b) = - Compare(b, a).
Decided(data, learningType, a, b) ==
  LET dateA == TouchTime(data[<<learningType, a>>])
      dateB == TouchTime(data[<<learningType, b>>])
  IN dateA # 0 /\ dateB # 0 /\ dateA # dateB

\* The ids getLastAccessed may return.  Where the comparator decides every
\* pair of keys the order is the sorted one; where it answers 1 both ways for
\* some pair the order Array.prototype.sort leaves is the engine's choice.
LastAccessedOutcomes(data, learningType, pageId) ==
  LET keys == WildcardIds(data, learningType, pageId) IN
  IF keys = {} THEN {NoId}
  ELSE IF \A a \in keys : \A b \in keys \ {a} : Decided(data, learningType, a, b)
  THEN {getLastAccessed(data, learningType, pageId)}
  ELSE keys

\* ---------------------------------------------------------------- progress

\* What JavaScript's 0/0 gives, carried through Math.round, Math.max, Math.min.
NaN == 0 - 1

\* range[0] + range[1] of an optional range: twice its average.
Twice(range) == IF range = NoRange THEN 0 ELSE range[1] + range[2]

RECURSIVE SumMinutes(_, _)
\* Twice the sum of the minutes averages of nodes[1..i].
SumMinutes(nodes, i) ==
  IF i = 0 THEN 0
  ELSE SumMinutes(nodes, i - 1) + Twice(dataTree.modules[nodes[i]].minutes)

\* Math.min(100, Math.max(0, Math.round(100 * num / den))) for num >= 0, den > 0
PercentUnclamped(num, den) == (200 * num + den) \div (2 * den)

Percent(num, den) ==
  LET rounded == (200 * num + den) \div (2 * den) IN
  IF rounded > 100 THEN 100 ELSE rounded

getModuleProgress(data, pageId) ==
  IF ~Known(pageId) THEN 0
  ELSE
    LET lastAccessed ==
          IF dataTree.modules[pageId].parent = ModulesRoot
          THEN getLastAccessed(data, "modules", pageId) ELSE NoId
        activeItemId == IF lastAccessed # NoId THEN lastAccessed ELSE pageId
    IN
    IF ~Known(activeItemId) THEN 0
    ELSE
      LET activePathIds == getActivePathIds(activeItemId)
          childRoot == ChildRoot(activeItemId)
          size == Cardinality(DOMAIN dataTree.modules)
          parents == ParentPath(dataTree.modules[childRoot].parent, size)
          \* baseTimeRange[0] + baseTimeRange[1]
          baseTime2 == Twice(dataTree.modules[childRoot].remaining)
                       + SumMinutes(parents, Len(parents))
          moduleId == getModuleRoot(pageId)
          complete == {id \in WildcardIds(data, "units", moduleId) :
                         data[<<"units", id>>].completed_at # 0}
          inPath(id) == \E i \in 1..Len(activePathIds) : activePathIds[i] = id
          activePathIdsCompleted == SetToSeq({id \in complete : inPath(id)})
          userCompleted2 == SumMinutes(activePathIdsCompleted, Len(activePathIdsCompleted))
      IN
      IF baseTime2 # 0 THEN Percent(userCompleted2, baseTime2)
      ELSE IF Len(activePathIds) = 0 THEN NaN
      ELSE Percent(Len(activePathIdsCompleted), Len(activePathIds))

\* ------------------------------------------------------------- write path

\* The state a handler works on while it runs: the objects, the subject's
\* object, local storage, the requests in flight, this.isAuthenticated and the
\* updateField calls made so far.
Running(auth) ==
  [heap |-> heap, subject |-> subject, localStorage |-> localStorage,
   puts |-> puts, auth |-> auth, log |-> <<>>]

\* An object identity no live object has.
NewObject(h) == CHOOSE n \in 1..(Cardinality(DOMAIN h) + 1) : n \notin DOMAIN h

\* dataLocal with dataLocal[learningType][pageId] set to rec
With(dataLocal, key, rec) ==
  [k \in DOMAIN dataLocal \cup {key} |-> IF k = key THEN rec ELSE dataLocal[k]]

\* The PUT requests in flight with one more whose callbacks republish the
\* object dataLocal.  A request in flight is what its callbacks close over;
\* its body dataChange is kept in the log of the handler that sent it.
Dispatch(inFlight, dataLocal) ==
  [o \in DOMAIN inFlight \cup {dataLocal} |->
     IF o \in DOMAIN inFlight
     THEN inFlight[o] + (IF o = dataLocal THEN 1 ELSE 0)
     ELSE 1]

\* The PUT requests in flight without one that republishes dataLocal.
Settle(inFlight, dataLocal) ==
  [o \in {x \in DOMAIN inFlight : x # dataLocal \/ inFlight[x] > 1} |->
     IF o = dataLocal THEN inFlight[o] - 1 ELSE inFlight[o]]

RECURSIVE Total(_)
\* The number of PUT requests in flight.
Total(inFlight) ==
  IF DOMAIN inFlight = {} THEN 0
  ELSE LET o == CHOOSE x \in DOMAIN inFlight : TRUE
       IN inFlight[o] + Total([x \in DOMAIN inFlight \ {o} |-> inFlight[x]])

\* updateField sending the PUT whether logged in or not.
updateFieldAlwaysPut(st, learningType, pageId, fieldValues) ==
  LET key == <<learningType, pageId>>
      dataLocal == st.heap[st.subject]
      merged == Assign(RecordAt(dataLocal, key), fieldValues)
      full == With(dataLocal, key, merged)
      call == [key |-> key, fields |-> fieldValues, body |-> merged, put |-> TRUE]
  IN [st EXCEPT
        !.heap = [st.heap EXCEPT ![st.subject] = full],
        !.localStorage = full,
        !.puts = Dispatch(st.puts, st.subject),
        !.log = Append(st.log, call)]

updateField(st, learningType, pageId, fieldValues) ==
  LET key == <<learningType, pageId>>
      dataLocal == st.heap[st.subject]
      merged == Assign(RecordAt(dataLocal, key), fieldValues)
      full == With(dataLocal, key, merged)
      \* dataChange[learningType][pageId] is the merged record
      call == [key |-> key, fields |-> fieldValues, body |-> merged, put |-> st.auth]
  IN [st EXCEPT
        !.heap = [st.heap EXCEPT ![st.subject] = full],
        \* JSON.stringify(dataLocal): a copy by value
        !.localStorage = full,
        \* next(dataLocal) publishes the same object when not logged in
        !.puts = IF st.auth THEN Dispatch(st.puts, st.subject) ELSE st.puts,
        !.log = Append(st.log, call)]

startPage(st, pageId) ==
  LET learningType == getLearningType(pageId)
      first == updateField(st, learningType, pageId, Started(now))
  IN IF learningType = "modules"
     THEN updateField(first, "units", pageId, Started(now))
     ELSE first

\* completeModule asking for more than 100 percent.
completeModuleStrict(st, pageId) ==
  LET moduleId == getModuleRoot(pageId)
      data == st.heap[st.subject]
      currentState == RecordAt(data, <<"modules", moduleId>>)
      newData ==
        [NoRecord EXCEPT
           !.started_at = IF currentState.started_at = 0 THEN now ELSE 0,
           !.completed_at = IF currentState.completed_at = 0
                               /\ getModuleProgress(data, pageId) > 100
                            THEN now ELSE 0]
  IN updateField(st, "modules", moduleId, newData)

\* completeModule without the test of the module progress.
completeModuleAlways(st, pageId) ==
  LET moduleId == getModuleRoot(pageId)
      data == st.heap[st.subject]
      currentState == RecordAt(data, <<"modules", moduleId>>)
      newData ==
        [NoRecord EXCEPT
           !.started_at = IF currentState.started_at = 0 THEN now ELSE 0,
           !.completed_at = IF currentState.completed_at = 0 THEN now ELSE 0]
  IN updateField(st, "modules", moduleId, newData)

completeModule(st, pageId) ==
  LET moduleId == getModuleRoot(pageId)
      data == st.heap[st.subject]
      currentState == RecordAt(data, <<"modules", moduleId>>)
      newData ==
        [NoRecord EXCEPT
           !.started_at = IF currentState.started_at = 0 THEN now ELSE 0,
           !.completed_at = IF currentState.completed_at = 0
                               /\ getModuleProgress(data, pageId) >= 100
                            THEN now ELSE 0]
  \* if (newData) holds of every object, the empty one too
  IN updateField(st, "modules", moduleId, newData)

\* The test of completeTracks satisfied by one completed member.
SomeModuleComplete(data, track) ==
  /\ track.hasModules
  /\ \E j \in 1..Len(track.modules) :
       RecordAt(data, <<"modules", track.modules[j]>>).completed_at # 0

\* trackData[trackId].modules.length === modulesComplete.length, inside
\* if (trackData[trackId].modules)
ModulesComplete(data, track) ==
  /\ track.hasModules
  /\ Len(track.modules)
       = Cardinality({j \in 1..Len(track.modules) :
                        RecordAt(data, <<"modules", track.modules[j]>>).completed_at # 0})

RECURSIVE completeTracksFrom(_, _)
\* The forEach of completeTracks over the track keys [i..].
completeTracksFrom(st, i) ==
  IF i > Len(dataTree.trackKeys) THEN st
  ELSE
    LET trackId == dataTree.trackKeys[i]
        track == dataTree.tracks[trackId]
        data == st.heap[st.subject]
        currentState == RecordAt(data, <<"tracks", trackId>>)
        newData ==
          [NoRecord EXCEPT
             !.started_at = IF currentState.started_at = 0 THEN now ELSE 0,
             !.completed_at = IF currentState.completed_at = 0 THEN now ELSE 0]
    IN IF ModulesComplete(data, track)
       THEN completeTracksFrom(updateField(st, "tracks", trackId, newData), i + 1)
       ELSE completeTracksFrom(st, i + 1)

completeTracks(st) == completeTracksFrom(st, 1)

RECURSIVE awardTracks(_, _, _, _)
\* The forEach of awardAchievements over completedTracks[i..].
awardTracks(st, achievementsData, completedTracks, i) ==
  IF i > Len(completedTracks) THEN st
  ELSE IF <<"achievements", completedTracks[i]>> \notin DOMAIN achievementsData
  THEN awardTracks(updateField(st, "achievements", completedTracks[i], Earned(now)),
                   achievementsData, completedTracks, i + 1)
  ELSE awardTracks(st, achievementsData, completedTracks, i + 1)

\* awardAchievements without the test that the achievement is not recorded yet.
awardAchievementsUnguarded(st) ==
  LET data == st.heap[st.subject]
      modulesDone == {id \in IdsOf(data, "modules") : data[<<"modules", id>>].completed_at # 0}
      completedTracks ==
        SetToSeq({id \in IdsOf(data, "tracks") : data[<<"tracks", id>>].completed_at # 0})
      grand == IF modulesDone # {}
               THEN updateField(st, "achievements", GrandOpening, Earned(now))
               ELSE st
  IN awardTracks(grand, EmptyObject, completedTracks, 1)

awardAchievements(st) ==
  LET data == st.heap[st.subject]
      modulesDone == {id \in IdsOf(data, "modules") : data[<<"modules", id>>].completed_at # 0}
      completedTracks ==
        SetToSeq({id \in IdsOf(data, "tracks") : data[<<"tracks", id>>].completed_at # 0})
      grand == IF modulesDone # {} /\ <<"achievements", GrandOpening>> \notin DOMAIN data
               THEN updateField(st, "achievements", GrandOpening, Earned(now))
               ELSE st
  IN awardTracks(grand, data, completedTracks, 1)

\* completePage without the test of the learning type.
completePageAnyType(st, pageId) ==
  awardAchievements(
    completeTracks(
      completeModule(
        updateField(st, "units", pageId, Completed(now)), pageId)))

completePage(st, pageId) ==
  LET learningType == getLearningType(pageId) IN
  IF learningType # "units" /\ learningType # "modules" THEN st
  ELSE awardAchievements(
         completeTracks(
           completeModule(
             updateField(st, "units", pageId, Completed(now)), pageId)))

\* ---------------------------------------------------------------- actions

RECURSIVE Noted(_, _, _)
\* seen with the fields of the updateField calls log[1..i] merged in, in order.
Noted(seen, log, i) ==
  IF i = 0 THEN seen
  ELSE LET earlier == Noted(seen, log, i - 1)
           key == log[i].key
       IN With(earlier, key, Assign(RecordAt(earlier, key), log[i].fields))

\* The objects something still refers to.
Live(st, getsNext) ==
  {st.subject} \cup DOMAIN st.puts \cup {g.existing : g \in getsNext}

\* The state a handler leaves behind.  Objects nothing refers to are dropped
\* and the identities of the others renumbered 1..n in their order of creation,
\* so that two states differ only by what the program can observe.
Commit(st, getsNext, op, arg) ==
  LET live == Live(st, getsNext)
      name(o) == Cardinality({x \in live : x <= o})
      old(n) == CHOOSE o \in live : name(o) = n
  IN
  /\ heap' = [n \in 1..Cardinality(live) |-> st.heap[old(n)]]
  /\ subject' = name(st.subject)
  /\ localStorage' = st.localStorage
  /\ puts' = [n \in {name(o) : o \in DOMAIN st.puts} |-> st.puts[old(n)]]
  /\ gets' = {[g EXCEPT !.existing = name(g.existing)] : g \in getsNext}
  /\ lastOp' = op
  /\ lastArg' = arg
  /\ lastCalls' = st.log
  /\ written' = Noted(written, st.log, Len(st.log))

RECURSIVE replayFrom(_, _, _, _)
\* The nested forEach of initUserProgressData over the entries of existing.
replayFrom(st, existing, keys, i) ==
  IF i > Len(keys) THEN st
  ELSE replayFrom(updateField(st, keys[i][1], keys[i][2], existing[keys[i]]),
                  existing, keys, i + 1)

\* initUserProgressData without the transfer of local progress.
transferNothing(st, existing) == st

transferLocalProgress(st, existing) ==
  replayFrom(st, existing, SetToSeq(DOMAIN existing), 1)

\* The GET request of initUserProgressData: the object its error callback
\* publishes; whether the emission that issued it followed an anonymous one;
\* and the requests the transfer dispatched before it was issued.
Get(existing, transition, sent) ==
  [existing |-> existing, transition |-> transition, sent |-> sent]

\* The callback init() subscribes to isAuthenticated(), with
\* initUserProgressData.
AuthEmit(next) ==
  /\ inits < MaxInits
  /\ inits' = inits + 1
  /\ isAuthenticated' = next
  /\ LET existing == NewObject(heap)
         \* JSON.parse(localStorage.getItem(...)) || {}: a fresh object
         allocated == (existing :> localStorage) @@ heap
     IN IF ~next
        THEN /\ wasAnonymous' = TRUE
             /\ Commit(startPage([Running(FALSE) EXCEPT !.heap = allocated,
                                                         !.subject = existing],
                                  currentPage),
                       gets, "init", currentPage)
        ELSE LET st0 == [Running(TRUE) EXCEPT !.heap = allocated]
                 st == IF wasAnonymous THEN transferLocalProgress(st0, localStorage)
                       ELSE st0
                 sent == {[key |-> st.log[i].key, body |-> st.log[i].body] :
                            i \in {j \in 1..Len(st.log) : st.log[j].put}}
                 get == Get(existing, ~isAuthenticated /\ inits > 0, sent)
             IN /\ wasAnonymous' = FALSE
                /\ Commit(st, gets \cup {get}, "init", currentPage)
  /\ UNCHANGED <<dataTree, currentPage, now, calls, result, accessed>>

StartPage(pageId) ==
  /\ Total(puts) <= MaxInFlight
  /\ calls' = calls + 1
  /\ Commit(startPage(Running(isAuthenticated), pageId), gets, "startPage", pageId)
  /\ UNCHANGED <<dataTree, currentPage, now, isAuthenticated, wasAnonymous,
                 inits, result, accessed>>

CompletePage(pageId) ==
  /\ Total(puts) <= MaxInFlight
  /\ calls' = calls + 1
  /\ Commit(completePage(Running(isAuthenticated), pageId), gets, "completePage", pageId)
  /\ UNCHANGED <<dataTree, currentPage, now, isAuthenticated, wasAnonymous,
                 inits, result, accessed>>

\* A PUT succeeds: the next handler does nothing, the complete handler
\* republishes dataLocal.
PutOk(dataLocal) ==
  /\ Commit([Running(isAuthenticated) EXCEPT !.subject = dataLocal,
                                              !.puts = Settle(puts, dataLocal)],
            gets, "putOk", NoId)
  /\ UNCHANGED <<dataTree, currentPage, now, isAuthenticated, wasAnonymous,
                 inits, calls, result, accessed>>

\* A PUT fails: the error handler calls userProfileService.signOut() on status
\* 401 (lastOp records the call; what the session does then reaches the
\* service as a later emission) and republishes dataLocal.
PutFail(dataLocal, unauthorized) ==
  /\ Commit([Running(isAuthenticated) EXCEPT !.subject = dataLocal,
                                              !.puts = Settle(puts, dataLocal)],
            gets, IF unauthorized THEN "putFail401" ELSE "putFail", NoId)
  /\ UNCHANGED <<dataTree, currentPage, now, isAuthenticated, wasAnonymous,
                 inits, calls, result, accessed>>

\* The GET succeeds with the snapshot the remote store answers: it is stored,
\* published, and the page started.
GetOk(g, snapshot) ==
  /\ LET res == NewObject(heap)
         st0 == [Running(isAuthenticated) EXCEPT !.heap = (res :> snapshot) @@ heap,
                                                 !.subject = res,
                                                 !.localStorage = snapshot]
     IN Commit(startPage(st0, currentPage), gets \ {g}, "getOk", currentPage)
  /\ UNCHANGED <<dataTree, currentPage, now, isAuthenticated, wasAnonymous,
                 inits, calls, result, accessed>>

\* The GET fails: the object parsed at init is published, and the page started.
GetErr(g) ==
  /\ Commit(startPage([Running(isAuthenticated) EXCEPT !.subject = g.existing],
                      currentPage),
            gets \ {g}, "getErr", currentPage)
  /\ UNCHANGED <<dataTree, currentPage, now, isAuthenticated, wasAnonymous,
                 inits, calls, result, accessed>>

\* A component reads getModuleProgress(pageId).
Query(pageId) ==
  /\ result' = getModuleProgress(Value, pageId)
  /\ lastOp' = "getModuleProgress"
  /\ lastArg' = pageId
  /\ lastCalls' = <<>>
  /\ UNCHANGED <<dataTree, currentPage, now, heap, subject, localStorage,
                 isAuthenticated, wasAnonymous, puts, gets, inits, calls,
                 written, accessed>>

\* A component reads getLastAccessed(learningType, pageId).
QueryLast(learningType, pageId) ==
  /\ \E id \in LastAccessedOutcomes(Value, learningType, pageId) :
       accessed' = [learningType |-> learningType, pageId |-> pageId, id |-> id]
  /\ lastOp' = "getLastAccessed"
  /\ lastArg' = pageId
  /\ lastCalls' = <<>>
  /\ UNCHANGED <<dataTree, currentPage, now, heap, subject, localStorage,
                 isAuthenticated, wasAnonymous, puts, gets, inits, calls,
                 result, written>>

\* Time passes.
Tick ==
  /\ now < MaxTime
  /\ now' = now + 1
  /\ lastOp' = "tick"
  /\ lastArg' = NoId
  /\ lastCalls' = <<>>
  /\ UNCHANGED <<dataTree, currentPage, heap, subject, localStorage,
                 isAuthenticated, wasAnonymous, puts, gets, inits, calls,
                 result, written, accessed>>

\* -------------------------------------------------------- specifications

\* The state after construction, before init() has seen an emission.
Constructed ==
  /\ now = 1
  /\ heap = (1 :> EmptyObject)
  /\ subject = 1
  /\ isAuthenticated = FALSE
  /\ wasAnonymous = FALSE
  /\ puts = EmptyObject
  /\ gets = {}
  /\ lastOp = "none"
  /\ lastArg = NoId
  /\ lastCalls = <<>>
  /\ inits = 0
  /\ calls = 0
  /\ result = 0
  /\ written = EmptyObject
  /\ accessed = NoAccess

Init ==
  /\ dataTree = MainCatalog
  /\ currentPage = MXU1
  /\ localStorage \in LocalSnapshots
  /\ Constructed

\* The session emits and the components call in any order, MaxEvents times.
Emit == inits + calls < MaxEvents /\ \E next \in BOOLEAN : AuthEmit(next)
Start ==
  /\ inits + calls < MaxEvents
  /\ calls < MaxCalls
  /\ \E pageId \in PageIds : StartPage(pageId)
Complete ==
  /\ inits + calls < MaxEvents
  /\ calls < MaxCalls
  /\ \E pageId \in PageIds : CompletePage(pageId)
PutSucceeds == \E dataLocal \in DOMAIN puts : PutOk(dataLocal)
PutFails ==
  \E dataLocal \in DOMAIN puts : \E unauthorized \in BOOLEAN : PutFail(dataLocal, unauthorized)
GetSucceeds == \E g \in gets : \E snapshot \in RemoteSnapshots : GetOk(g, snapshot)
GetFails == \E g \in gets : GetErr(g)

Next ==
  \/ Emit
  \/ Start
  \/ Complete
  \/ PutSucceeds
  \/ PutFails
  \/ GetSucceeds
  \/ GetFails
  \/ Tick

Spec == Init /\ [][Next]_vars

\* A session: init() sees one emission, the snapshot fetch (if any) settles,
\* and then the page's components call startPage and completePage while the
\* PUT requests succeed or fail.
SessionEmit == inits = 0 /\ \E next \in BOOLEAN : AuthEmit(next)
SessionStart ==
  /\ inits = 1
  /\ gets = {}
  /\ calls < MaxCalls
  /\ \E pageId \in PageIds : StartPage(pageId)
SessionComplete ==
  /\ inits = 1
  /\ gets = {}
  /\ calls < MaxCalls
  /\ \E pageId \in PageIds : CompletePage(pageId)

SessionNext ==
  \/ SessionEmit
  \/ SessionStart
  \/ SessionComplete
  \/ PutSucceeds
  \/ PutFails
  \/ GetSucceeds
  \/ GetFails
  \/ Tick

SpecSession == Init /\ [][SessionNext]_vars

\* An anonymous visitor completes the pages of a module, each once, in any
\* order, and the components read the module progress of any page.
InitProgress ==
  /\ dataTree \in ProgressCatalogs
  /\ currentPage = MX
  /\ localStorage = EmptyObject
  /\ Constructed

ProgressComplete ==
  \E pageId \in DOMAIN dataTree.modules \ {ModulesRoot} :
    /\ RecordAt(Value, <<"units", pageId>>).completed_at = 0
    /\ CompletePage(pageId)

ProgressQuery == \E pageId \in DOMAIN dataTree.modules \cup {Unknown} : Query(pageId)

ProgressNext ==
  \/ ProgressComplete
  \/ ProgressQuery

SpecProgress == InitProgress /\ [][ProgressNext]_vars

\* An anonymous visit: init() sees the session anonymous, the components call
\* startPage and completePage as time passes, and read the last accessed page.
AccessEmit == inits = 0 /\ AuthEmit(FALSE)
AccessStart == inits = 1 /\ calls < MaxCalls /\ \E pageId \in PageIds : StartPage(pageId)
AccessComplete ==
  inits = 1 /\ calls < MaxCalls /\ \E pageId \in PageIds : CompletePage(pageId)
AccessQuery ==
  \E learningType \in {"units", "modules"} : \E pageId \in PageIds :
    QueryLast(learningType, pageId)

AccessNext ==
  \/ AccessEmit
  \/ AccessStart
  \/ AccessComplete
  \/ AccessQuery
  \/ Tick

SpecAccess == Init /\ [][AccessNext]_vars

\* ------------------------------------------------------------------ claims

\* untouched (0), started (1), completed (2)
Phase(rec) == IF rec.completed_at # 0 THEN 2 ELSE IF rec.started_at # 0 THEN 1 ELSE 0

PageCall == {"startPage", "completePage"}
PutCallback == {"putOk", "putFail", "putFail401"}
GetCallback == {"getOk", "getErr"}

\* The number of updateField calls for key in a handler's log.
Count(log, key) == Cardinality({i \in 1..Len(log) : log[i].key = key})

\* C1: whatever startPage and completePage calls are made, authenticated or
\* not, and however their PUT requests settle, no call and no PUT callback
\* takes a record of the published state back to an earlier phase (untouched,
\* started, completed), clears its completed_at or moves it earlier.
C1_CompletedNeverRegresses ==
  [][lastOp' \in PageCall \cup PutCallback
       => \A key \in DOMAIN Value :
            /\ Phase(RecordAt(Value', key)) >= Phase(Value[key])
            /\ RecordAt(Value', key).completed_at >= Value[key].completed_at]_vars

\* C2: a response callback (of a PUT or of the snapshot GET) never publishes a
\* state in which a record that was completed is not completed any more.
C2_CallbacksKeepCompleted ==
  [][lastOp' \in PutCallback \cup GetCallback
       => \A key \in DOMAIN Value :
            Value[key].completed_at # 0 => RecordAt(Value', key).completed_at # 0]_vars

\* body carries every field rec has
Carries(body, rec) == Assign(body, rec) = body

\* C3: while the snapshot GET issued by a transition from anonymous to
\* authenticated is in flight (so before its response can overwrite the local
\* state), a PUT carrying each record of the local snapshot has been dispatched.
C3_LocalRecordsSentBeforeFetch ==
  \A g \in gets :
    g.transition =>
      \A key \in DOMAIN heap[g.existing] :
        \E put \in g.sent : put.key = key /\ Carries(put.body, heap[g.existing][key])

\* C3 witness: the snapshot GET of a login is in flight and the local snapshot
\* holds a completed unit.
C3_Witness ==
  \E g \in gets :
    /\ g.transition
    /\ <<"units", MXU1>> \in DOMAIN heap[g.existing]
    /\ heap[g.existing][<<"units", MXU1>>].completed_at # 0

\* mx/u1 is the only unit of mx and its minutes cover mx's remaining time; mx is
\* the only member of ty.
SoleUnitCoversModule ==
  /\ dataTree.modules[MX].children = <<MXU1>>
  /\ dataTree.modules[MXU1].children = <<>>
  /\ Twice(dataTree.modules[MX].remaining) > 0
  /\ Twice(dataTree.modules[MXU1].minutes) >= Twice(dataTree.modules[MX].remaining)
  /\ dataTree.tracks[TY].modules = <<MX>>

\* C4: when startPage("mx/u1") has run, units/mx/u1 has started_at; when
\* completePage("mx/u1") has run, the module mx, the track ty and the
\* achievement grand-opening are all recorded as completed or granted.
C4_CascadeEndToEnd ==
  SoleUnitCoversModule =>
    /\ lastOp = "startPage" /\ lastArg = MXU1
         => RecordAt(Value, <<"units", MXU1>>).started_at # 0
    /\ lastOp = "completePage" /\ lastArg = MXU1
         => /\ RecordAt(Value, <<"units", MXU1>>).completed_at # 0
            /\ RecordAt(Value, <<"modules", MX>>).completed_at # 0
            /\ RecordAt(Value, <<"tracks", TY>>).completed_at # 0
            /\ <<"achievements", GrandOpening>> \in DOMAIN Value

\* C4 witness: completePage("mx/u1") has just completed module, track and
\* achievement of a unit that startPage had started.
C4_Witness ==
  /\ lastOp = "completePage"
  /\ lastArg = MXU1
  /\ Count(lastCalls, <<"modules", MX>>) = 1
  /\ Count(lastCalls, <<"tracks", TY>>) = 1
  /\ Count(lastCalls, <<"achievements", GrandOpening>>) = 1
  /\ RecordAt(Value, <<"units", MXU1>>).started_at # 0
  /\ RecordAt(Value, <<"modules", MX>>).completed_at = now

\* C5: a completePage call changes a track record only if every member module
\* of the track is completed in the state it leaves; with tz = [mx, my] and my
\* not completed, tracks/tz is left as it was.
C5_TrackNeedsEveryModule ==
  [][lastOp' = "completePage"
       => \A trackId \in DOMAIN dataTree.tracks :
            \/ /\ (<<"tracks", trackId>> \in DOMAIN Value')
                    = (<<"tracks", trackId>> \in DOMAIN Value)
               /\ RecordAt(Value', <<"tracks", trackId>>)
                    = RecordAt(Value, <<"tracks", trackId>>)
            \/ /\ dataTree.tracks[trackId].hasModules
               /\ \A j \in 1..Len(dataTree.tracks[trackId].modules) :
                    RecordAt(Value', <<"modules", dataTree.tracks[trackId].modules[j]>>)
                      .completed_at # 0]_vars

\* C5 witness: completePage has completed mx alone, and tz = [mx, my] has no
\* record.
C5_Witness ==
  /\ lastOp = "completePage"
  /\ RecordAt(Value, <<"modules", MX>>).completed_at = now
  /\ RecordAt(Value, <<"modules", MY>>).completed_at = 0
  /\ RecordAt(Value, <<"tracks", TY>>).completed_at # 0
  /\ <<"tracks", TZ>> \notin DOMAIN Value

\* C6: a completePage call on a unit or module page issues one update for
\* achievement grand-opening when a module is completed and the achievement was
\* not recorded, and none otherwise; and likewise one update for a completed
\* track's achievement when it was not recorded, and none otherwise.
C6_AchievementsGrantedOnce ==
  [][lastOp' = "completePage" /\ getLearningType(lastArg') \in {"units", "modules"}
       => /\ Count(lastCalls', <<"achievements", GrandOpening>>)
               = IF /\ <<"achievements", GrandOpening>> \notin DOMAIN Value
                    /\ \E id \in IdsOf(Value', "modules") :
                         Value'[<<"modules", id>>].completed_at # 0
                 THEN 1 ELSE 0
          /\ \A trackId \in IdsOf(Value', "tracks") :
               Count(lastCalls', <<"achievements", trackId>>)
                 = IF /\ <<"achievements", trackId>> \notin DOMAIN Value
                      /\ Value'[<<"tracks", trackId>>].completed_at # 0
                   THEN 1 ELSE 0]_vars

\* C6 witness: a second completePage, at time 2, has run awardAchievements with
\* a module completed and issued no update for the grand-opening granted at
\* time 1.
C6_Witness ==
  /\ lastOp = "completePage"
  /\ getLearningType(lastArg) = "units"
  /\ now = 2
  /\ calls = 2
  /\ RecordAt(Value, <<"achievements", GrandOpening>>).earned_at = 1
  /\ RecordAt(Value, <<"modules", MX>>).completed_at # 0
  /\ Count(lastCalls, <<"achievements", GrandOpening>>) = 0

\* C7: completePage on a page id that is neither a unit nor a module (a track,
\* an unknown id, a container root) changes no object, publishes nothing,
\* writes nothing to local storage and dispatches no request.
C7_CompleteOtherTypesIsNoOp ==
  [][lastOp' = "completePage" /\ getLearningType(lastArg') \notin {"units", "modules"}
       => /\ UNCHANGED <<heap, subject, localStorage, puts, gets>>
          /\ lastCalls' = <<>>]_vars

\* C7 witness: completePage("ty") has run in an authenticated session whose
\* state holds records.
C7_Witness ==
  /\ lastOp = "completePage"
  /\ lastArg = TY
  /\ getLearningType(lastArg) = "tracks"
  /\ isAuthenticated
  /\ DOMAIN Value # {}

\* C10: startPage and completePage leave the started_at of a record that has
\* one as it is.
C10_StartedAtKept ==
  [][lastOp' \in PageCall
       => \A key \in DOMAIN Value :
            Value[key].started_at # 0
              => RecordAt(Value', key).started_at = Value[key].started_at]_vars

\* every page of the module of pageId carries an estimate and is completed
ModuleDone(pageId) ==
  \A id \in DOMAIN dataTree.modules :
    IsPrefix(getModuleRoot(pageId), id)
      => /\ Twice(dataTree.modules[id].minutes) > 0
         /\ RecordAt(Value, <<"units", id>>).completed_at # 0

\* no node of the catalog carries minutes or remaining
NoEstimates ==
  \A id \in DOMAIN dataTree.modules :
    dataTree.modules[id].minutes = NoRange /\ dataTree.modules[id].remaining = NoRange

\* C8: getModuleProgress of an id the catalog knows is an integer from 0 to
\* 100 (never the NaN of a division by zero), and it is 0 when no unit is
\* completed, whatever estimates the catalog carries or lacks.
C8_ProgressIsPercentage ==
  lastOp = "getModuleProgress" /\ Known(lastArg)
    => /\ result \in 0..100
       /\ (\A id \in IdsOf(Value, "units") : Value[<<"units", id>>].completed_at = 0)
            => result = 0

\* C8 witness: in a catalog without any estimate, with two of the three pages
\* on the active path completed, getModuleProgress("mx/u1/p") is 67.
C8_Witness ==
  /\ lastOp = "getModuleProgress"
  /\ lastArg = MXU1P
  /\ NoEstimates
  /\ dataTree.modules[MXU1].is_fork
  /\ result = 67

\* C9: getModuleProgress of a page of a module is 100 when every page of the
\* module carries a non-zero estimate and is completed.
C9_AllCompletedIsHundred ==
  lastOp = "getModuleProgress" /\ Known(lastArg) /\ lastArg # ModulesRoot /\ ModuleDone(lastArg)
    => result = 100


\* the handlers that call updateField: the component calls, init() and the
\* callbacks of the snapshot GET
Handler == PageCall \cup {"init"} \cup GetCallback

\* C11: a handler that runs while isAuthenticated is false sends no PUT: each
\* of its updateField calls merges its fields into the record, and the handler
\* leaves the merged object published and stored in local storage, with as
\* many PUT requests in flight as before.
C11_AnonymousUpdatesStayLocal ==
  [][lastOp' \in Handler /\ ~isAuthenticated' /\ lastCalls' # <<>>
       => /\ Total(puts') = Total(puts)
          /\ \A i \in 1..Len(lastCalls') :
               /\ ~lastCalls'[i].put
               /\ Carries(RecordAt(Value', lastCalls'[i].key), lastCalls'[i].fields)
          /\ localStorage' = Value']_vars

\* C11 witness: an anonymous completePage has run the whole cascade (five
\* updates) and nothing is in flight.
C11_Witness ==
  /\ ~isAuthenticated
  /\ lastOp = "completePage"
  /\ Len(lastCalls) = 5
  /\ Total(puts) = 0
  /\ localStorage = Value
  /\ RecordAt(localStorage, <<"tracks", TY>>).completed_at # 0


\* C12: a read of (type, id) made after updateField(type, id, fields) was
\* called finds the fields that call wrote (or what a later call wrote over
\* them), while the call's PUT is in flight and after it settled.
C12_ReadYourWrites ==
  \A key \in DOMAIN written : Carries(RecordAt(Value, key), written[key])


\* C13: when the snapshot GET fails, the error callback calls
\* startPage(currentPage) and the state it publishes holds every record local
\* storage held when the response arrived (which includes what was written
\* while the GET was in flight): each still there, completed if it was, and
\* unchanged unless startPage wrote it.
C13_FetchFailureKeepsLocalProgress ==
  [][lastOp' = "getErr"
       => /\ lastCalls' # <<>>
          /\ lastCalls'[1].key[2] = currentPage
          /\ lastCalls'[1].fields = Started(now)
          /\ \A key \in DOMAIN localStorage :
               /\ key \in DOMAIN Value'
               /\ localStorage[key].completed_at # 0 => Value'[key].completed_at # 0
               /\ Count(lastCalls', key) = 0 => Value'[key] = localStorage[key]]_vars


\* C14: an authenticated completePage call dispatches at most the PUT of the
\* units update itself; the PUTs of completeModule, completeTracks and
\* awardAchievements wait for the settlement of the stage before them.
C14_CascadeWaitsForSettlement ==
  [][lastOp' = "completePage" /\ isAuthenticated
       => Total(puts') <= Total(puts) + 1]_vars


\* the published object as completeModule finds it in completePage(pageId):
\* with completed_at merged into units/pageId
AfterUnit(pageId) ==
  LET st == updateField(Running(isAuthenticated), "units", pageId, Completed(now))
  IN st.heap[st.subject]

\* C15: completePage(pageId) on a unit or module page whose module is not
\* completed leaves the module record started, and completed exactly when
\* getModuleProgress(pageId), read once the unit is marked, is at least 100.
C15_ModuleCompletedOnlyAtHundred ==
  [][(/\ lastOp' = "completePage"
      /\ getLearningType(lastArg') \in {"units", "modules"}
      /\ RecordAt(Value, <<"modules", getModuleRoot(lastArg')>>).completed_at = 0)
       => LET module == RecordAt(Value', <<"modules", getModuleRoot(lastArg')>>)
          IN /\ module.started_at # 0
             /\ (module.completed_at # 0)
                  <=> (getModuleProgress(AfterUnit(lastArg'), lastArg') >= 100)]_vars

\* C15 witness: completePage("mx/u1") has run with two of the module's three
\* pages completed and a module progress below 100: the module is started and
\* not completed.
C15_Witness ==
  /\ lastOp = "completePage"
  /\ lastArg = MXU1
  /\ RecordAt(Value, <<"units", MX>>).completed_at # 0
  /\ RecordAt(Value, <<"units", MXU1P>>).completed_at = 0
  /\ getModuleProgress(Value, MXU1) \in 1..99
  /\ RecordAt(Value, <<"modules", MX>>).started_at # 0
  /\ RecordAt(Value, <<"modules", MX>>).completed_at = 0


\* C16: no updateField call of a completePage cascade has an empty set of
\* fields: completeModule and completeTracks issue no update when they have
\* nothing to set.
C16_NoEmptyUpdates ==
  [][lastOp' = "completePage"
       => \A i \in 1..Len(lastCalls') : lastCalls'[i].fields # NoRecord]_vars


\* C17: a track that lists no member module (its modules property is absent or
\* empty) never gets a record from the cascade, nor a track achievement.
C17_EmptyTracksStayUntouched ==
  \A trackId \in DOMAIN dataTree.tracks :
    ~dataTree.tracks[trackId].hasModules \/ dataTree.tracks[trackId].modules = <<>>
      => /\ <<"tracks", trackId>> \notin DOMAIN Value
         /\ <<"achievements", trackId>> \notin DOMAIN Value


\* C18: once init() has run, whenever no PUT and no GET is in flight the
\* published in-memory state equals the snapshot in local storage.
C18_MemoryMirrorsLocalStorage ==
  inits > 0 /\ Total(puts) = 0 /\ gets = {} => Value = localStorage


\* the later of started_at and completed_at, an absent one counting as never
TouchOf(rec) == IF rec.started_at > rec.completed_at THEN rec.started_at ELSE rec.completed_at

\* C19: getLastAccessed(type, pageId) returns none when no record is keyed
\* pageId or below it, and otherwise the id of a matching record whose touch
\* time (the later of started_at and completed_at, an absent one ignored) no
\* other matching record exceeds.
C19_LastAccessedIsLatest ==
  lastOp = "getLastAccessed"
    => LET keys == WildcardIds(Value, accessed.learningType, accessed.pageId)
           touch(id) == TouchOf(Value[<<accessed.learningType, id>>])
       IN IF keys = {} THEN accessed.id = NoId
          ELSE /\ accessed.id \in keys
               /\ \A id \in keys : touch(id) <= touch(accessed.id)


\* type LearningType
LearningTypes == {"achievements", "tracks", "modules", "units"}

\* C20: every record of the published state and of local storage, and every
\* updateField call (so every PUT body), is under one of the top-level keys
\* achievements, tracks, modules, units.
C20_OnlyLearningTypeKeys ==
  /\ \A key \in DOMAIN Value \cup DOMAIN localStorage : key[1] \in LearningTypes
  /\ \A i \in 1..Len(lastCalls) : lastCalls[i].key[1] \in LearningTypes

=============================================================================
